---- MODULE Spec2Model ----
(***************************************************************************)
(* websocket-load-test: the statistics Manager (internal/stats/manager.go) *)
(* and the WebSocketClient connection loop (internal/client/websocket.go), *)
(* driven by the display ticker and the interrupt handler of cmd/root.go.  *)
(*                                                                         *)
(* Spec        the whole program: connection loop, display ticker, main.   *)
(*             Every Manager method is one step (the Manager's counters    *)
(*             are written by the connection loop alone).                  *)
(* SpecEvents  the Manager as an object: StartNewConnection,               *)
(*             HandleResponse and SetSubscriptionMapping called in any     *)
(*             order with any arguments, the last call kept in `call`.     *)
(* SpecSend    the connection loop over every configuration of Configs,    *)
(*             against a server that sends no frame.                       *)
(* SpecRace    the program with the Manager's methods split at their       *)
(*             statements: the code holds no lock.                         *)
(*                                                                         *)
(* Time is a tick counter `now`; time.Now() reads it, time.Since(t) is     *)
(* now - t.  Manager.spinnerIndex, Manager.needFullClear and the terminal  *)
(* output are left out: they decide only what the next draw prints.        *)
(***************************************************************************)
EXTENDS Integers, Sequences, FiniteSets, TLC

(* ----------------------------- bounds ---------------------------------- *)
\* Spec: the clock, the connection attempts, the frames read, the failed
\* writes.  SpecSend: the instance count.  SpecEvents: the frames handled.
MaxTime == 1
MaxAttempts == 2
MaxEvents == 1
MaxSendFailures == 1
MaxSubCount == 2
MaxCalls == 2
MaxLifeCalls == 1

(* --------------------------- JSON values ------------------------------- *)
\* A decoded JSON value (Go's `any`): nil, a float64, a string, or anything
\* else (an object, a bool).  Numbers are kept as twice their value, so that
\* 1.5 (n2 = 3) is a value and int(1.5) = 1 is a truncation.
JNil == [kind |-> "nil", n2 |-> 0, s |-> ""]
JNum(n2) == [kind |-> "num", n2 |-> n2, s |-> ""]
JStr(s) == [kind |-> "str", n2 |-> 0, s |-> s]
JObj == [kind |-> "obj", n2 |-> 0, s |-> ""]

\* int(id) of a float64 id: truncation toward zero.
IntOf(n2) == IF n2 >= 0 THEN n2 \div 2 ELSE -((-n2) \div 2)

\* fmt.Sprintf("%v", v) for the values the model draws.
Digits == <<"0", "1", "2", "3", "4", "5", "6", "7", "8", "9">>
Sprint(v) ==
    CASE v.kind = "str" -> v.s
      [] v.kind = "nil" -> "<nil>"
      [] v.kind = "obj" -> "map[]"
      [] v.kind = "num" ->
            LET a == IF v.n2 < 0 THEN -v.n2 ELSE v.n2
                whole == Digits[(a \div 2) + 1]
                frac == IF a % 2 = 1 THEN ".5" ELSE ""
            IN  (IF v.n2 < 0 THEN "-" ELSE "") \o whole \o frac

\* The subscription handle the server issues, and the values a frame may
\* carry: the ids 1 and 1.5 and the string "1"; a notification names the
\* handle as a string or as the number 1, or names a handle never issued.
Handles == {"1"}
IDValues == {JNil, JNum(2), JNum(3), JStr("1")}
ResultValues == {JNil, JObj} \cup {JStr(h) : h \in Handles}
ErrorValues == {JNil, JObj}
Methods == {"", "eth_subscription"}
\* params: not a map (nil), a map without "subscription", or a map with it.
NoParams == [kind |-> "nil", hasSub |-> FALSE, sub |-> JNil]
ParamsMap == [kind |-> "map", hasSub |-> FALSE, sub |-> JNil]
ParamsSub(v) == [kind |-> "map", hasSub |-> TRUE, sub |-> v]
ParamsValues ==
    {NoParams, ParamsMap, ParamsSub(JNum(2)), ParamsSub(JStr("0x2"))}
        \cup {ParamsSub(JStr(h)) : h \in Handles}

JSONRPCResponse ==
    [ID : IDValues, Result : ResultValues, Error : ErrorValues,
     Method : Methods, Params : ParamsValues]

(* ------------------------------ state ---------------------------------- *)
VARIABLES
    config,             \* types.Config: Subscriptions, SubCount, URLValid
    now,                \* the clock
    mgr,                \* stats.Manager
    idToSubscription,   \* WebSocketClient.idToSubscription
    subscriptionIDs,    \* WebSocketClient.subscriptionIDs
    totalSubscriptions, \* WebSocketClient.totalSubscriptions
    done,               \* the done channel is closed
    pc,                 \* connection loop: where it is
    requestID,          \* sendSubscriptions: requestID
    subIdx,             \* sendSubscriptions: index into subTypes
    instance,           \* sendSubscriptions: instance
    wire,               \* the requests written on the current connection
    dpc,                \* display ticker goroutine
    mpc,                \* main goroutine
    iter,               \* Manager calls made by the current loop iteration
    lastFail,           \* how the previous loop iteration ended
    sendFails,          \* failed writes so far
    call                \* SpecManager: the last Manager call

vars == <<config, now, mgr, idToSubscription, subscriptionIDs,
          totalSubscriptions, done, pc, requestID, subIdx, instance, wire,
          dpc, mpc, iter, lastFail, sendFails, call>>

clientVars == <<idToSubscription, subscriptionIDs, totalSubscriptions>>
sendVars == <<requestID, subIdx, instance, wire, sendFails>>

(* --------------------------- stats.Manager ----------------------------- *)
\* time.Time{}: the zero time, before any clock reading.
ZeroTime == -1

NewStats ==
    [TotalConnections |-> 0, TotalReconnections |-> 0,
     CurrentConnStart |-> ZeroTime, TotalUptime |-> 0, EventsReceived |-> 0,
     ClientStartTime |-> 0, SubscriptionEvents |-> 0,
     ConfirmationEvents |-> 0, ErrorEvents |-> 0, LastEventTime |-> ZeroTime,
     ConnectionAttempts |-> 0, CurrentConnMessages |-> 0,
     LongestConnection |-> 0, ShortestConnection |-> 0]

\* A Go map: a function on the keys present.
Last(seq) == seq[Len(seq)]
EmptyMap == [k \in {} |-> 0]
MapGet(f, k, zero) == IF k \in DOMAIN f THEN f[k] ELSE zero
MapPut(f, k, v) == [x \in DOMAIN f \cup {k} |-> IF x = k THEN v ELSE f[x]]

NewManager ==
    [stats |-> NewStats, connectionHistory |-> <<>>,
     messagesByType |-> EmptyMap, subIDToType |-> EmptyMap]

IncrementConnectionAttempts(m) ==
    [m EXCEPT !.stats.ConnectionAttempts = @ + 1]


\* A mutant of StartNewConnection: the message count is not reset.
StartNewConnectionKeepMessages(m, t) ==
    [m EXCEPT !.stats.TotalConnections = @ + 1,
              !.stats.CurrentConnStart = t]

\* A mutant of StartNewConnection: the time since the previous connection
\* began is added to TotalUptime.
StartNewConnectionFlush(m, t) ==
    [m EXCEPT !.stats.TotalConnections = @ + 1,
              !.stats.TotalUptime =
                  IF m.stats.CurrentConnStart # ZeroTime
                  THEN @ + (t - m.stats.CurrentConnStart) ELSE @,
              !.stats.CurrentConnStart = t,
              !.stats.CurrentConnMessages = 0]

StartNewConnection(m, t) ==
    [m EXCEPT !.stats.TotalConnections = @ + 1,
              !.stats.CurrentConnStart = t,
              !.stats.CurrentConnMessages = 0]


\* A mutant of IncrementReconnections: the guard is missing.
IncrementReconnectionsUnguarded(m) ==
    [m EXCEPT !.stats.TotalReconnections = @ + 1]

IncrementReconnections(m) ==
    IF m.stats.TotalConnections > 0
    THEN [m EXCEPT !.stats.TotalReconnections = @ + 1]
    ELSE m


\* A mutant of EndConnection: the guard is missing.
EndConnectionUnguarded(m, t) ==
    LET connectionDuration == t - m.stats.CurrentConnStart
        s == m.stats
    IN  [m EXCEPT
           !.stats.TotalUptime = @ + connectionDuration,
           !.connectionHistory = Append(@,
               [ConnectionNum |-> s.TotalConnections,
                StartTime |-> s.CurrentConnStart,
                EndTime |-> t,
                Duration |-> connectionDuration,
                Messages |-> s.CurrentConnMessages]),
           !.stats.LongestConnection =
               IF @ = 0 \/ connectionDuration > @
               THEN connectionDuration ELSE @,
           !.stats.ShortestConnection =
               IF @ = 0 \/ connectionDuration < @
               THEN connectionDuration ELSE @]

\* A mutant of EndConnection: ShortestConnection is left as it is.
EndConnectionKeepShortest(m, t) ==
    IF m.stats.TotalConnections > 0
    THEN [EndConnectionUnguarded(m, t) EXCEPT
            !.stats.ShortestConnection = m.stats.ShortestConnection]
    ELSE m

\* A mutant of EndConnection: the duration is not added to TotalUptime.
EndConnectionKeepUptime(m, t) ==
    IF m.stats.TotalConnections > 0
    THEN [EndConnectionUnguarded(m, t) EXCEPT
            !.stats.TotalUptime = m.stats.TotalUptime]
    ELSE m

\* A mutant of EndConnection: only the record of the connection that ended
\* is kept.
EndConnectionKeepLast(m, t) ==
    IF m.stats.TotalConnections > 0
    THEN [EndConnectionUnguarded(m, t) EXCEPT
            !.connectionHistory = <<Last(EndConnectionUnguarded(m, t).connectionHistory)>>]
    ELSE m

\* A mutant of EndConnection: the message count of the connection is reset
\* when it ends.
EndConnectionResetMessages(m, t) ==
    IF m.stats.TotalConnections > 0
    THEN [EndConnectionUnguarded(m, t) EXCEPT
            !.stats.CurrentConnMessages = 0]
    ELSE m

\* A mutant of EndConnection: the record does not keep the message count.
EndConnectionNoMessages(m, t) ==
    IF m.stats.TotalConnections > 0
    THEN [EndConnectionUnguarded(m, t) EXCEPT
            !.connectionHistory[Len(m.connectionHistory) + 1].Messages = 0]
    ELSE m

\* A mutant of EndConnection: TotalUptime grows by the time since the client
\* started.
EndConnectionSinceClientStart(m, t) ==
    IF m.stats.TotalConnections > 0
    THEN [EndConnectionUnguarded(m, t) EXCEPT
            !.stats.TotalUptime =
                m.stats.TotalUptime + (t - m.stats.ClientStartTime)]
    ELSE m

EndConnection(m, t) ==
    IF m.stats.TotalConnections > 0
    THEN LET connectionDuration == t - m.stats.CurrentConnStart
             s == m.stats
         IN  [m EXCEPT
                !.stats.TotalUptime = @ + connectionDuration,
                !.connectionHistory = Append(@,
                    [ConnectionNum |-> s.TotalConnections,
                     StartTime |-> s.CurrentConnStart,
                     EndTime |-> t,
                     Duration |-> connectionDuration,
                     Messages |-> s.CurrentConnMessages]),
                !.stats.LongestConnection =
                    IF @ = 0 \/ connectionDuration > @
                    THEN connectionDuration ELSE @,
                !.stats.ShortestConnection =
                    IF @ = 0 \/ connectionDuration < @
                    THEN connectionDuration ELSE @]
    ELSE m


\* A mutant of getSubscriptionTypeFromID: the lookup never finds the handle.
getSubscriptionTypeFromIDMiss(m, subscriptionID) == ""

getSubscriptionTypeFromID(m, subscriptionID) ==
    IF subscriptionID \in DOMAIN m.subIDToType
    THEN m.subIDToType[subscriptionID]
    ELSE ""

SetSubscriptionMapping(m, subscriptionID, subscriptionType) ==
    [m EXCEPT !.subIDToType = MapPut(@, subscriptionID, subscriptionType)]


\* A mutant of countSubscriptionEvent: a handle that is not registered is
\* not bucketed.
countSubscriptionEventSkipUnknown(m, response) ==
    LET m2 == [m EXCEPT !.stats.SubscriptionEvents = @ + 1]
    IN  IF response.Params.kind = "map" /\ response.Params.hasSub
        THEN LET subscriptionType ==
                     getSubscriptionTypeFromID(m2, Sprint(response.Params.sub))
             IN  IF subscriptionType # ""
                 THEN [m2 EXCEPT !.messagesByType =
                          MapPut(@, subscriptionType,
                                 MapGet(@, subscriptionType, 0) + 1)]
                 ELSE m2
        ELSE m2

\* A mutant of countSubscriptionEvent: a notification whose params have no
\* subscription field is counted under "unknown".
countSubscriptionEventAlwaysBucket(m, response) ==
    LET m2 == [m EXCEPT !.stats.SubscriptionEvents = @ + 1]
        subscriptionType ==
            IF response.Params.kind = "map" /\ response.Params.hasSub
            THEN getSubscriptionTypeFromID(m2, Sprint(response.Params.sub))
            ELSE ""
        bucket == IF subscriptionType # "" THEN subscriptionType ELSE "unknown"
    IN  [m2 EXCEPT !.messagesByType =
             MapPut(@, bucket, MapGet(@, bucket, 0) + 1)]

\* HandleResponse, lines 93-105: a subscription event and its type.
countSubscriptionEvent(m, response) ==
    LET m2 == [m EXCEPT !.stats.SubscriptionEvents = @ + 1]
    IN  IF response.Params.kind = "map" /\ response.Params.hasSub
        THEN LET subscriptionType ==
                     getSubscriptionTypeFromID(m2, Sprint(response.Params.sub))
                 bucket == IF subscriptionType # ""
                           THEN subscriptionType ELSE "unknown"
             IN  [m2 EXCEPT !.messagesByType =
                      MapPut(@, bucket, MapGet(@, bucket, 0) + 1)]
        ELSE m2

\* HandleResponse, lines 106-110: a result counts with a float64 id.
countConfirmation(m, response) ==
    IF response.ID.kind = "num"
    THEN [m EXCEPT !.stats.ConfirmationEvents = @ + 1]
    ELSE m

\* HandleResponse, lines 111-113.
countError(m, response) ==
    [m EXCEPT !.stats.ErrorEvents = @ + 1]


\* A mutant of countReceived: the current connection's count is not kept.
countReceivedTotalOnly(m, t) ==
    [m EXCEPT !.stats.EventsReceived = @ + 1,
              !.stats.LastEventTime = t]

\* HandleResponse, lines 88-90.
countReceived(m, t) ==
    [m EXCEPT !.stats.EventsReceived = @ + 1,
              !.stats.CurrentConnMessages = @ + 1,
              !.stats.LastEventTime = t]


\* A mutant of HandleResponse: the three tests are not chained by else.
HandleResponseNoElse(m, response, t) ==
    LET m1 == countReceived(m, t)
        m2 == IF response.Method = "eth_subscription"
              THEN countSubscriptionEvent(m1, response) ELSE m1
        m3 == IF response.Result.kind # "nil"
              THEN countConfirmation(m2, response) ELSE m2
    IN  IF response.Error.kind # "nil" THEN countError(m3, response) ELSE m3

\* A mutant of HandleResponse: the last branch does not test the error.
HandleResponseErrorDefault(m, response, t) ==
    LET m1 == countReceived(m, t)
    IN  IF response.Method = "eth_subscription"
        THEN countSubscriptionEvent(m1, response)
        ELSE IF response.Result.kind # "nil"
        THEN countConfirmation(m1, response)
        ELSE countError(m1, response)

HandleResponse(m, response, t) ==
    LET m1 == countReceived(m, t)
    IN  IF response.Method = "eth_subscription"
        THEN countSubscriptionEvent(m1, response)
        ELSE IF response.Result.kind # "nil"
        THEN countConfirmation(m1, response)
        ELSE IF response.Error.kind # "nil"
        THEN countError(m1, response)
        ELSE m1

\* DisplayRunningStats reads the Manager and draws: the statistics are as
\* they were.
DisplayRunningStats(m, ts, t) == m

\* PrintFinalStats: the flush of the current connection's elapsed time.
PrintFinalStats(m, ts, t) ==
    IF m.stats.CurrentConnStart # ZeroTime
    THEN [m EXCEPT !.stats.TotalUptime = @ + (t - m.stats.CurrentConnStart)]
    ELSE m

\* A mutant of successRate: the test of EventsReceived is missing.
successRateUnguarded(m) ==
    [computed |-> TRUE,
     num |-> (m.stats.EventsReceived - m.stats.ErrorEvents) * 100,
     den |-> m.stats.EventsReceived]

\* PrintFinalStats: the success rate, float64(EventsReceived - ErrorEvents)
\* / float64(EventsReceived) * 100, kept as the fraction num / den.  The
\* line is computed and printed only when EventsReceived > 0.
successRate(m) ==
    IF m.stats.EventsReceived > 0
    THEN [computed |-> TRUE,
          num |-> (m.stats.EventsReceived - m.stats.ErrorEvents) * 100,
          den |-> m.stats.EventsReceived]
    ELSE [computed |-> FALSE, num |-> 0, den |-> 0]

(* ------------------------------ config --------------------------------- *)
\* Config.Subscriptions is a string; the model writes it as its sequence of
\* tokens: a comma, a white-space character, or a run of other characters.
IsSpace(tok) == tok \in {" ", "\t"}

\* strings.Split(s, ","): always at least one entry.
RECURSIVE Split(_)
Split(s) ==
    IF \E i \in 1..Len(s) : s[i] = ","
    THEN LET i == CHOOSE j \in 1..Len(s) :
                      s[j] = "," /\ \A k \in 1..(j - 1) : s[k] # ","
         IN  <<SubSeq(s, 1, i - 1)>> \o Split(SubSeq(s, i + 1, Len(s)))
    ELSE <<s>>

\* strings.TrimSpace followed by reading the entry as one string.
RECURSIVE Join(_)
Join(e) == IF e = <<>> THEN "" ELSE Head(e) \o Join(Tail(e))

TrimSpace(e) ==
    IF \A i \in 1..Len(e) : IsSpace(e[i])
    THEN ""
    ELSE LET first == CHOOSE i \in 1..Len(e) :
                          ~IsSpace(e[i]) /\ \A k \in 1..(i - 1) : IsSpace(e[k])
             last == CHOOSE i \in 1..Len(e) :
                          ~IsSpace(e[i]) /\ \A k \in (i + 1)..Len(e) : IsSpace(e[k])
         IN  Join(SubSeq(e, first, last))

SubscriptionStrings ==
    { <<"newHeads">>,
      <<"newHeads", ",", "logs">>,
      <<" ", "newHeads", ",", " ", ",", "logs", "\t">>,
      <<"newPendingTransactions", ",", "logs", ",", "Logs">>,
      <<>> }

Configs ==
    [Subscriptions : SubscriptionStrings, SubCount : 1..MaxSubCount,
     URLValid : {TRUE}]

\* The configurations of Spec: one type, no type at all, and an application
\* id that url.Parse rejects.
RunConfigs ==
    { [Subscriptions |-> <<"newHeads">>, SubCount |-> 1, URLValid |-> TRUE],
      [Subscriptions |-> <<>>, SubCount |-> 1, URLValid |-> TRUE],
      [Subscriptions |-> <<"newHeads">>, SubCount |-> 1, URLValid |-> FALSE] }

\* A mutant of Params: the type name alone, whatever the type.
ParamsNameOnly(sub) == <<sub>>

\* sendSubscriptions: the params of a subscribe request, and the request.
\* The filter of logs is an object whose topics array holds one null.
Params(sub) ==
    CASE sub = "newHeads" -> <<"newHeads">>
      [] sub = "newPendingTransactions" -> <<"newPendingTransactions">>
      [] sub = "logs" -> <<"logs", [topics |-> <<JNil>>]>>
      [] OTHER -> <<sub>>

JSONRPCRequest(id, sub) ==
    [JSONRPC |-> "2.0", ID |-> id, Method |-> "eth_subscribe",
     Params |-> Params(sub)]

(* ------------------------------- Init ---------------------------------- *)
NoResponse == [ID |-> JNil, Result |-> JNil, Error |-> JNil, Method |-> "",
               Params |-> NoParams]
\* op: the method called last; response, id, type: its arguments; n: the
\* HandleResponse calls since the last StartNewConnection; before: those
\* made before it; attempts, events: ConnectionAttempts and EventsReceived
\* when done was closed.
NoCall == [op |-> "none", response |-> NoResponse, id |-> "", type |-> "",
           n |-> 0, before |-> 0, attempts |-> 0, events |-> 0]
\* The Manager calls of the current loop iteration, whether a write of its
\* send phase failed, and totalSubscriptions when it started; in SpecRace
\* also EndConnection's connectionDuration and the TotalUptime it has read.
NoIter == [attempt |-> 0, begin |-> 0, end |-> 0, reconn |-> 0,
           sendFailed |-> FALSE, subs0 |-> 0, duration |-> 0, uptime |-> 0]

InitWith(configs) ==
    /\ config \in configs
    /\ now = 0
    /\ mgr = NewManager
    /\ idToSubscription = EmptyMap
    /\ subscriptionIDs = EmptyMap
    /\ totalSubscriptions = 0
    /\ done = FALSE
    /\ pc = "loop"
    /\ requestID = 0
    /\ subIdx = 0
    /\ instance = 0
    /\ wire = <<>>
    /\ dpc = "ticking"
    /\ mpc = "waiting"
    /\ iter = NoIter
    /\ lastFail = "none"
    /\ sendFails = 0
    /\ call = NoCall

Init == InitWith(RunConfigs)

\* The process runs until main returns or the Go runtime stops it.
Alive == mpc \notin {"exited", "crashed"}

(* --------------------- WebSocketClient: the loop ----------------------- *)
\* A mutant of CMLoop: the loop gives up after the first attempt.
CMLoopRetryLimit ==
    /\ Alive /\ pc = "loop"
    /\ IF done \/ mgr.stats.ConnectionAttempts >= 1
       THEN pc' = "exited"
       ELSE IF ~config.URLValid
       THEN pc' = "sleep5"
       ELSE pc' = "attempt"
    /\ iter' = [NoIter EXCEPT !.subs0 = totalSubscriptions]
    /\ UNCHANGED <<config, now, mgr, clientVars, done, sendVars, dpc, mpc,
                   lastFail, call>>

\* A mutant of CMLoop: done is not looked at.
CMLoopIgnoreDone ==
    /\ Alive /\ pc = "loop"
    /\ IF ~config.URLValid
       THEN pc' = "sleep5"
       ELSE /\ mgr.stats.ConnectionAttempts < MaxAttempts
            /\ pc' = "attempt"
    /\ iter' = [NoIter EXCEPT !.subs0 = totalSubscriptions]
    /\ UNCHANGED <<config, now, mgr, clientVars, done, sendVars, dpc, mpc,
                   lastFail, call>>

\* connectionLoop: the select on done, then connectAndListen up to the dial.
CMLoop ==
    /\ Alive /\ pc = "loop"
    /\ IF done
       THEN pc' = "exited"
       ELSE IF ~config.URLValid
       THEN pc' = "sleep5"
       ELSE /\ mgr.stats.ConnectionAttempts < MaxAttempts
            /\ pc' = "attempt"
    /\ iter' = [NoIter EXCEPT !.subs0 = totalSubscriptions]
    /\ UNCHANGED <<config, now, mgr, clientVars, done, sendVars, dpc, mpc,
                   lastFail, call>>


\* A mutant of CMAttempt: the dial is made without counting the attempt.
CMAttemptUncounted ==
    /\ Alive /\ pc = "attempt"
    /\ iter' = [iter EXCEPT !.attempt = @ + 1]
    /\ pc' = "dial"
    /\ UNCHANGED <<config, now, mgr, clientVars, done, sendVars, dpc, mpc,
                   lastFail, call>>

CMAttempt ==
    /\ Alive /\ pc = "attempt"
    /\ mgr' = IncrementConnectionAttempts(mgr)
    /\ iter' = [iter EXCEPT !.attempt = @ + 1]
    /\ pc' = "dial"
    /\ UNCHANGED <<config, now, clientVars, done, sendVars, dpc, mpc,
                   lastFail, call>>

\* websocket.DefaultDialer.Dial returns an error.
CMDialFail ==
    /\ Alive /\ pc = "dial"
    /\ pc' = "dialFailed"
    /\ UNCHANGED <<config, now, mgr, clientVars, done, sendVars, dpc, mpc,
                   iter, lastFail, call>>

CMDialFailed ==
    /\ Alive /\ pc = "dialFailed"
    /\ mgr' = IncrementReconnections(mgr)
    /\ iter' = [iter EXCEPT !.reconn = @ + 1]
    /\ lastFail' = "dial"
    /\ pc' = "sleep5"
    /\ UNCHANGED <<config, now, clientVars, done, sendVars, dpc, mpc, call>>

\* time.Sleep returns, connectAndListen returns (the deferred conn.Close()).
CMSleep ==
    /\ Alive /\ pc \in {"sleep5", "sleep2"}
    /\ pc' = "loop"
    /\ UNCHANGED <<config, now, mgr, clientVars, done, sendVars, dpc, mpc,
                   iter, lastFail, call>>

\* The dial succeeds.
CMDialOk ==
    /\ Alive /\ pc = "dial"
    /\ pc' = "begin"
    /\ UNCHANGED <<config, now, mgr, clientVars, done, sendVars, dpc, mpc,
                   iter, lastFail, call>>

CMBegin ==
    /\ Alive /\ pc = "begin"
    /\ mgr' = StartNewConnection(mgr, now)
    /\ iter' = [iter EXCEPT !.begin = @ + 1]
    /\ pc' = "render"
    /\ UNCHANGED <<config, now, clientVars, done, sendVars, dpc, mpc,
                   lastFail, call>>


\* A mutant of CMRender: requestID is set to 1 on the first connection only.
CMRenderKeepID ==
    /\ Alive /\ pc = "render"
    /\ mgr' = DisplayRunningStats(mgr, totalSubscriptions, now)
    /\ requestID' = IF requestID = 0 THEN 1 ELSE requestID
    /\ subIdx' = 1
    /\ instance' = 1
    /\ wire' = <<>>
    /\ pc' = "send"
    /\ UNCHANGED <<config, now, clientVars, done, sendFails, dpc, mpc, iter,
                   lastFail, call>>

\* A mutant of CMRender: sendSubscriptions starts its count from 0 again.
CMRenderResetTotal ==
    /\ Alive /\ pc = "render"
    /\ mgr' = DisplayRunningStats(mgr, totalSubscriptions, now)
    /\ requestID' = 1
    /\ subIdx' = 1
    /\ instance' = 1
    /\ wire' = <<>>
    /\ totalSubscriptions' = 0
    /\ pc' = "send"
    /\ UNCHANGED <<config, now, idToSubscription, subscriptionIDs, done,
                   sendFails, dpc, mpc, iter, lastFail, call>>

\* The initial display, then sendSubscriptions up to its loop.
CMRender ==
    /\ Alive /\ pc = "render"
    /\ mgr' = DisplayRunningStats(mgr, totalSubscriptions, now)
    /\ requestID' = 1
    /\ subIdx' = 1
    /\ instance' = 1
    /\ wire' = <<>>
    /\ pc' = "send"
    /\ UNCHANGED <<config, now, clientVars, done, sendFails, dpc, mpc, iter,
                   lastFail, call>>

(* ------------------ WebSocketClient.sendSubscriptions ------------------- *)
subTypes == Split(config.Subscriptions)

\* The entry is empty after trimming (continue), or the instance loop of the
\* entry is over: on to the next entry.
CMSendNext ==
    /\ Alive /\ pc = "send" /\ subIdx <= Len(subTypes)
    /\ \/ TrimSpace(subTypes[subIdx]) = ""
       \/ instance > config.SubCount
    /\ subIdx' = subIdx + 1
    /\ instance' = 1
    /\ UNCHANGED <<config, now, mgr, clientVars, done, pc, requestID, wire,
                   sendFails, dpc, mpc, iter, lastFail, call>>


\* A mutant of CMSendOk: the request id is not advanced after a write.
CMSendOkSameID ==
    /\ Alive /\ pc = "send" /\ subIdx <= Len(subTypes)
    /\ TrimSpace(subTypes[subIdx]) # ""
    /\ instance <= config.SubCount
    /\ LET sub == TrimSpace(subTypes[subIdx])
       IN  /\ wire' = Append(wire, JSONRPCRequest(requestID, sub))
           /\ subscriptionIDs' = MapPut(subscriptionIDs, <<sub, instance>>, requestID)
           /\ idToSubscription' = MapPut(idToSubscription, requestID, sub)
    /\ totalSubscriptions' = totalSubscriptions + 1
    /\ instance' = instance + 1
    /\ UNCHANGED <<config, now, mgr, done, pc, requestID, subIdx, sendFails,
                   dpc, mpc, iter, lastFail, call>>

\* conn.WriteJSON succeeds: the request is on the wire and is tracked.
CMSendOk ==
    /\ Alive /\ pc = "send" /\ subIdx <= Len(subTypes)
    /\ TrimSpace(subTypes[subIdx]) # ""
    /\ instance <= config.SubCount
    /\ LET sub == TrimSpace(subTypes[subIdx])
       IN  /\ wire' = Append(wire, JSONRPCRequest(requestID, sub))
           /\ subscriptionIDs' = MapPut(subscriptionIDs, <<sub, instance>>, requestID)
           /\ idToSubscription' = MapPut(idToSubscription, requestID, sub)
    /\ totalSubscriptions' = totalSubscriptions + 1
    /\ requestID' = requestID + 1
    /\ instance' = instance + 1
    /\ UNCHANGED <<config, now, mgr, done, pc, subIdx, sendFails, dpc, mpc,
                   iter, lastFail, call>>

\* A mutant of CMSendFail: the first write that fails ends the batch.
CMSendFailAbort ==
    /\ Alive /\ pc = "send" /\ subIdx <= Len(subTypes)
    /\ TrimSpace(subTypes[subIdx]) # ""
    /\ instance <= config.SubCount
    /\ sendFails < MaxSendFailures
    /\ sendFails' = sendFails + 1
    /\ iter' = [iter EXCEPT !.sendFailed = TRUE]
    /\ requestID' = requestID + 1
    /\ subIdx' = Len(subTypes) + 1
    /\ UNCHANGED <<config, now, mgr, clientVars, done, pc, instance, wire,
                   dpc, mpc, lastFail, call>>

\* A mutant of CMSendFail: the id of the request that failed is used for
\* the next request.
CMSendFailKeepID ==
    /\ Alive /\ pc = "send" /\ subIdx <= Len(subTypes)
    /\ TrimSpace(subTypes[subIdx]) # ""
    /\ instance <= config.SubCount
    /\ sendFails < MaxSendFailures
    /\ sendFails' = sendFails + 1
    /\ iter' = [iter EXCEPT !.sendFailed = TRUE]
    /\ instance' = instance + 1
    /\ UNCHANGED <<config, now, mgr, clientVars, done, pc, requestID, subIdx,
                   wire, dpc, mpc, lastFail, call>>

\* conn.WriteJSON fails: the id is used up, nothing is tracked.
CMSendFail ==
    /\ Alive /\ pc = "send" /\ subIdx <= Len(subTypes)
    /\ TrimSpace(subTypes[subIdx]) # ""
    /\ instance <= config.SubCount
    /\ sendFails < MaxSendFailures
    /\ sendFails' = sendFails + 1
    /\ iter' = [iter EXCEPT !.sendFailed = TRUE]
    /\ requestID' = requestID + 1
    /\ instance' = instance + 1
    /\ UNCHANGED <<config, now, mgr, clientVars, done, pc, subIdx, wire, dpc,
                   mpc, lastFail, call>>

\* A mutant of CMSendDone: the read loop is entered before the send phase
\* is over.
CMSendDoneEarly ==
    /\ Alive /\ pc = "send"
    /\ pc' = "listen"
    /\ UNCHANGED <<config, now, mgr, clientVars, done, sendVars, dpc, mpc,
                   iter, lastFail, call>>

\* The loop over subTypes is over: sendSubscriptions returns.
CMSendDone ==
    /\ Alive /\ pc = "send" /\ subIdx > Len(subTypes)
    /\ pc' = "listen"
    /\ UNCHANGED <<config, now, mgr, clientVars, done, sendVars, dpc, mpc,
                   iter, lastFail, call>>

(* ------------------ WebSocketClient.listenForMessages ------------------- *)
\* A mutant of CMListen: when done is closed the read loop ends the
\* connection as it does after a read error.
CMListenEndOnCancel ==
    /\ Alive /\ pc = "listen"
    /\ IF done
       THEN pc' = "endConn" /\ lastFail' = "cancel"
       ELSE pc' = "reading" /\ lastFail' = lastFail
    /\ UNCHANGED <<config, now, mgr, clientVars, done, sendVars, dpc, mpc,
                   iter, call>>

\* The select on done at the top of the read loop.
CMListen ==
    /\ Alive /\ pc = "listen"
    /\ IF done
       THEN pc' = "loop" /\ lastFail' = "cancel"
       ELSE pc' = "reading" /\ lastFail' = lastFail
    /\ UNCHANGED <<config, now, mgr, clientVars, done, sendVars, dpc, mpc,
                   iter, call>>

\* WebSocketClient.handleResponse
handleResponse(m, ids, response, t) ==
    LET m1 == HandleResponse(m, response, t)
    IN  IF /\ response.Result.kind # "nil"
           /\ response.ID.kind = "num"
           /\ IntOf(response.ID.n2) \in DOMAIN ids
           /\ response.Result.kind = "str"
        THEN SetSubscriptionMapping(m1, response.Result.s,
                                    ids[IntOf(response.ID.n2)])
        ELSE m1

\* conn.ReadJSON returns a frame, which is handled.
CMReadFrame ==
    /\ Alive /\ pc = "reading"
    /\ mgr.stats.EventsReceived < MaxEvents
    /\ \E response \in JSONRPCResponse :
          mgr' = handleResponse(mgr, idToSubscription, response, now)
    /\ pc' = "listen"
    /\ UNCHANGED <<config, now, clientVars, done, sendVars, dpc, mpc, iter,
                   lastFail, call>>


\* A mutant of CMReadErr: the read error goes on without EndConnection.
CMReadErrSkipEnd ==
    /\ Alive /\ pc = "reading"
    /\ pc' = "reconn"
    /\ UNCHANGED <<config, now, mgr, clientVars, done, sendVars, dpc, mpc,
                   iter, lastFail, call>>

\* A mutant of CMReadErr: the failure is counted as soon as ReadJSON
\* returns it, and again after EndConnection.
CMReadErrCounted ==
    /\ Alive /\ pc = "reading"
    /\ mgr' = IncrementReconnections(mgr)
    /\ pc' = "endConn"
    /\ UNCHANGED <<config, now, clientVars, done, sendVars, dpc, mpc, iter,
                   lastFail, call>>

\* conn.ReadJSON returns an error.
CMReadErr ==
    /\ Alive /\ pc = "reading"
    /\ pc' = "endConn"
    /\ UNCHANGED <<config, now, mgr, clientVars, done, sendVars, dpc, mpc,
                   iter, lastFail, call>>

CMEnd ==
    /\ Alive /\ pc = "endConn"
    /\ mgr' = EndConnection(mgr, now)
    /\ iter' = [iter EXCEPT !.end = @ + 1]
    /\ pc' = "reconn"
    /\ UNCHANGED <<config, now, clientVars, done, sendVars, dpc, mpc,
                   lastFail, call>>

\* A mutant of CMReconn: after the failure is recorded the read loop goes on.
CMReconnListen ==
    /\ Alive /\ pc = "reconn"
    /\ mgr' = IncrementReconnections(mgr)
    /\ iter' = [iter EXCEPT !.reconn = @ + 1]
    /\ lastFail' = "read"
    /\ pc' = "listen"
    /\ UNCHANGED <<config, now, clientVars, done, sendVars, dpc, mpc, call>>

CMReconn ==
    /\ Alive /\ pc = "reconn"
    /\ mgr' = IncrementReconnections(mgr)
    /\ iter' = [iter EXCEPT !.reconn = @ + 1]
    /\ lastFail' = "read"
    /\ pc' = "sleep2"
    /\ UNCHANGED <<config, now, clientVars, done, sendVars, dpc, mpc, call>>

(* ------------------------- cmd/root.go: display ------------------------ *)
\* The ticker fires: the dashboard is drawn once a connection has begun.
DisplayTick ==
    /\ Alive /\ dpc = "ticking"
    /\ IF mgr.stats.TotalConnections > 0
       THEN mgr' = DisplayRunningStats(mgr, totalSubscriptions, now)
       ELSE mgr' = mgr
    /\ UNCHANGED <<config, now, clientVars, done, pc, sendVars, dpc, mpc,
                   iter, lastFail, call>>

\* A mutant of DisplayStop: the select has no case for done, and the display
\* goroutine goes on waiting for the ticker.
DisplayStopNoCase ==
    /\ Alive /\ dpc = "ticking" /\ done
    /\ dpc' = "ticking"
    /\ UNCHANGED <<config, now, mgr, clientVars, done, pc, sendVars, mpc,
                   iter, lastFail, call>>

\* The display goroutine reads the closed done channel and returns.
DisplayStop ==
    /\ Alive /\ dpc = "ticking" /\ done
    /\ dpc' = "stopped"
    /\ UNCHANGED <<config, now, mgr, clientVars, done, pc, sendVars, mpc,
                   iter, lastFail, call>>

(* -------------------------- cmd/root.go: main -------------------------- *)
\* The interrupt arrives: close(done).
MainInterrupt ==
    /\ mpc = "waiting"
    /\ done' = TRUE
    /\ mpc' = "final"
    /\ UNCHANGED <<config, now, mgr, clientVars, pc, sendVars, dpc, iter,
                   lastFail, call>>

\* PrintFinalStats, and main returns: the process exits.
MainFinal ==
    /\ mpc = "final"
    /\ mgr' = PrintFinalStats(mgr, totalSubscriptions, now)
    /\ mpc' = "exited"
    /\ UNCHANGED <<config, now, clientVars, done, pc, sendVars, dpc, iter,
                   lastFail, call>>

\* Time passes.
Tick ==
    /\ Alive /\ now < MaxTime
    /\ now' = now + 1
    /\ UNCHANGED <<config, mgr, clientVars, done, pc, sendVars, dpc, mpc,
                   iter, lastFail, call>>

Next ==
    \/ CMLoop \/ CMAttempt \/ CMDialFail \/ CMDialFailed \/ CMSleep
    \/ CMDialOk \/ CMBegin \/ CMRender
    \/ CMSendNext \/ CMSendOk \/ CMSendFail \/ CMSendDone
    \/ CMListen \/ CMReadFrame \/ CMReadErr \/ CMEnd \/ CMReconn
    \/ DisplayTick \/ DisplayStop \/ MainInterrupt \/ MainFinal \/ Tick

Spec == Init /\ [][Next]_vars

(* ---------------- SpecEvents: the Manager as an object ------------------ *)
\* The subscription types a caller may register.
Types == {"newHeads", "unknown", ""}

ApiStartNewConnection ==
    /\ mgr.stats.TotalConnections < MaxAttempts
    /\ mgr' = StartNewConnection(mgr, now)
    /\ call' = [NoCall EXCEPT !.op = "StartNewConnection",
                              !.before = call.before + call.n]
    /\ UNCHANGED <<config, now, clientVars, done, pc, sendVars, dpc, mpc,
                   iter, lastFail>>

ApiHandleResponse ==
    /\ call.before + call.n < MaxCalls
    /\ \E response \in JSONRPCResponse :
          /\ mgr' = HandleResponse(mgr, response, now)
          /\ call' = [NoCall EXCEPT !.op = "HandleResponse",
                                    !.response = response,
                                    !.n = call.n + 1,
                                    !.before = call.before]
    /\ UNCHANGED <<config, now, clientVars, done, pc, sendVars, dpc, mpc,
                   iter, lastFail>>

ApiSetSubscriptionMapping ==
    /\ \E subscriptionID \in Handles, subscriptionType \in Types :
          /\ mgr' = SetSubscriptionMapping(mgr, subscriptionID, subscriptionType)
          /\ call' = [NoCall EXCEPT !.op = "SetSubscriptionMapping",
                                    !.id = subscriptionID,
                                    !.type = subscriptionType,
                                    !.n = call.n,
                                    !.before = call.before]
    /\ UNCHANGED <<config, now, clientVars, done, pc, sendVars, dpc, mpc,
                   iter, lastFail>>

InitEvents ==
    InitWith({[Subscriptions |-> <<"newHeads">>, SubCount |-> 1,
               URLValid |-> TRUE]})

NextEvents ==
    ApiStartNewConnection \/ ApiHandleResponse \/ ApiSetSubscriptionMapping

SpecEvents == InitEvents /\ [][NextEvents]_vars

(* ------------- SpecSend: the loop over every configuration ------------- *)
NextSend ==
    \/ CMLoop \/ CMAttempt \/ CMDialFail \/ CMDialFailed \/ CMSleep
    \/ CMDialOk \/ CMBegin \/ CMRender
    \/ CMSendNext \/ CMSendOk \/ CMSendFail \/ CMSendDone
    \/ CMListen \/ CMReadErr \/ CMEnd \/ CMReconn
    \/ MainInterrupt \/ MainFinal

SpecSend == InitWith(Configs) /\ [][NextSend]_vars

(* --------- SpecRace: the Manager's methods statement by statement ------ *)
\* The Manager struct has no lock, so the statements of a method of the
\* connection loop interleave with the draw of the display goroutine and
\* with PrintFinalStats of main.  A read-modify-write of TotalUptime, the
\* one field with two writers, is a read step and a write step: the value
\* read is kept in iter.uptime (connection loop) and call.n (main).

\* StartNewConnection: m.stats.TotalConnections++
BeginTotal ==
    /\ Alive /\ pc = "begin"
    /\ mgr' = [mgr EXCEPT !.stats.TotalConnections = @ + 1]
    /\ pc' = "begin.start"
    /\ UNCHANGED <<config, now, clientVars, done, sendVars, dpc, mpc, iter,
                   lastFail, call>>

\* StartNewConnection: m.stats.CurrentConnStart = time.Now()
BeginStart ==
    /\ Alive /\ pc = "begin.start"
    /\ mgr' = [mgr EXCEPT !.stats.CurrentConnStart = now]
    /\ pc' = "begin.msgs"
    /\ UNCHANGED <<config, now, clientVars, done, sendVars, dpc, mpc, iter,
                   lastFail, call>>

\* StartNewConnection: m.stats.CurrentConnMessages = 0
BeginMessages ==
    /\ Alive /\ pc = "begin.msgs"
    /\ mgr' = [mgr EXCEPT !.stats.CurrentConnMessages = 0]
    /\ iter' = [iter EXCEPT !.begin = @ + 1]
    /\ pc' = "render"
    /\ UNCHANGED <<config, now, clientVars, done, sendVars, dpc, mpc,
                   lastFail, call>>

\* conn.ReadJSON returns a frame; HandleResponse: m.stats.EventsReceived++
ReadCount ==
    /\ Alive /\ pc = "reading"
    /\ mgr.stats.EventsReceived < MaxEvents
    /\ mgr' = [mgr EXCEPT !.stats.EventsReceived = @ + 1]
    /\ pc' = "handle.msgs"
    /\ UNCHANGED <<config, now, clientVars, done, sendVars, dpc, mpc, iter,
                   lastFail, call>>

\* HandleResponse: m.stats.CurrentConnMessages++
ReadMessages ==
    /\ Alive /\ pc = "handle.msgs"
    /\ mgr' = [mgr EXCEPT !.stats.CurrentConnMessages = @ + 1]
    /\ pc' = "handle.time"
    /\ UNCHANGED <<config, now, clientVars, done, sendVars, dpc, mpc, iter,
                   lastFail, call>>

\* HandleResponse: m.stats.LastEventTime = time.Now()
ReadTime ==
    /\ Alive /\ pc = "handle.time"
    /\ mgr' = [mgr EXCEPT !.stats.LastEventTime = now]
    /\ pc' = "handle.classify"
    /\ UNCHANGED <<config, now, clientVars, done, sendVars, dpc, mpc, iter,
                   lastFail, call>>

\* HandleResponse: the if/else-if chain on the frame, then the rest of
\* WebSocketClient.handleResponse.  The first three statements do not read
\* the frame, so its content is drawn here.
ReadClassify ==
    /\ Alive /\ pc = "handle.classify"
    /\ \E response \in JSONRPCResponse :
          LET m1 == IF response.Method = "eth_subscription"
                    THEN countSubscriptionEvent(mgr, response)
                    ELSE IF response.Result.kind # "nil"
                    THEN countConfirmation(mgr, response)
                    ELSE IF response.Error.kind # "nil"
                    THEN countError(mgr, response)
                    ELSE mgr
          IN  mgr' = IF /\ response.Result.kind # "nil"
                        /\ response.ID.kind = "num"
                        /\ IntOf(response.ID.n2) \in DOMAIN idToSubscription
                        /\ response.Result.kind = "str"
                     THEN SetSubscriptionMapping(m1, response.Result.s,
                              idToSubscription[IntOf(response.ID.n2)])
                     ELSE m1
    /\ pc' = "listen"
    /\ UNCHANGED <<config, now, clientVars, done, sendVars, dpc, mpc, iter,
                   lastFail, call>>

\* HandleResponse writes m.messagesByType[...] while DisplayRunningStats of
\* the display goroutine ranges over the same map: the Go runtime may detect
\* the unsynchronised access ("fatal error: concurrent map iteration and map
\* write") and stop the process; ReadClassify is the outcome without it.
ReadClassifyFatal ==
    /\ Alive /\ pc = "handle.classify" /\ dpc = "drawing"
    /\ \E response \in JSONRPCResponse :
          /\ response.Method = "eth_subscription"
          /\ response.Params.hasSub
    /\ mpc' = "crashed"
    /\ UNCHANGED <<config, now, mgr, clientVars, done, pc, sendVars, dpc,
                   iter, lastFail, call>>

\* EndConnection: the guard, connectionDuration, and the read of TotalUptime.
EndRead ==
    /\ Alive /\ pc = "endConn"
    /\ IF mgr.stats.TotalConnections > 0
       THEN /\ iter' = [iter EXCEPT
                          !.duration = now - mgr.stats.CurrentConnStart,
                          !.uptime = mgr.stats.TotalUptime]
            /\ pc' = "end.write"
       ELSE /\ iter' = [iter EXCEPT !.end = @ + 1]
            /\ pc' = "reconn"
    /\ UNCHANGED <<config, now, mgr, clientVars, done, sendVars, dpc, mpc,
                   lastFail, call>>

\* EndConnection: m.stats.TotalUptime += connectionDuration
EndUptime ==
    /\ Alive /\ pc = "end.write"
    /\ mgr' = [mgr EXCEPT !.stats.TotalUptime = iter.uptime + iter.duration]
    /\ pc' = "end.history"
    /\ UNCHANGED <<config, now, clientVars, done, sendVars, dpc, mpc, iter,
                   lastFail, call>>

\* EndConnection: the append to connectionHistory.
EndHistory ==
    /\ Alive /\ pc = "end.history"
    /\ LET s == mgr.stats
       IN  mgr' = [mgr EXCEPT !.connectionHistory = Append(@,
                      [ConnectionNum |-> s.TotalConnections,
                       StartTime |-> s.CurrentConnStart,
                       EndTime |-> now,
                       Duration |-> iter.duration,
                       Messages |-> s.CurrentConnMessages])]
    /\ pc' = "end.extremes"
    /\ UNCHANGED <<config, now, clientVars, done, sendVars, dpc, mpc, iter,
                   lastFail, call>>

\* EndConnection: LongestConnection and ShortestConnection.
EndExtremes ==
    /\ Alive /\ pc = "end.extremes"
    /\ mgr' = [mgr EXCEPT
                 !.stats.LongestConnection =
                     IF @ = 0 \/ iter.duration > @ THEN iter.duration ELSE @,
                 !.stats.ShortestConnection =
                     IF @ = 0 \/ iter.duration < @ THEN iter.duration ELSE @]
    /\ iter' = [iter EXCEPT !.end = @ + 1]
    /\ pc' = "reconn"
    /\ UNCHANGED <<config, now, clientVars, done, sendVars, dpc, mpc,
                   lastFail, call>>

\* The ticker fires: GetStats().TotalConnections > 0, and the draw begins.
DrawBegin ==
    /\ Alive /\ dpc = "ticking"
    /\ mgr.stats.TotalConnections > 0
    /\ dpc' = "drawing"
    /\ UNCHANGED <<config, now, mgr, clientVars, done, pc, sendVars, mpc,
                   iter, lastFail, call>>

\* DisplayRunningStats has read the last field it prints.
DrawEnd ==
    /\ Alive /\ dpc = "drawing"
    /\ mgr' = DisplayRunningStats(mgr, totalSubscriptions, now)
    /\ dpc' = "ticking"
    /\ UNCHANGED <<config, now, clientVars, done, pc, sendVars, mpc, iter,
                   lastFail, call>>

\* PrintFinalStats: the test of CurrentConnStart and the read of TotalUptime.
FinalRead ==
    /\ mpc = "final"
    /\ IF mgr.stats.CurrentConnStart # ZeroTime
       THEN call' = [call EXCEPT !.n = mgr.stats.TotalUptime] /\ mpc' = "flush"
       ELSE call' = call /\ mpc' = "printing"
    /\ UNCHANGED <<config, now, mgr, clientVars, done, pc, sendVars, dpc,
                   iter, lastFail>>

\* PrintFinalStats: m.stats.TotalUptime += time.Since(CurrentConnStart)
FinalFlush ==
    /\ mpc = "flush"
    /\ mgr' = [mgr EXCEPT !.stats.TotalUptime =
                  call.n + (now - mgr.stats.CurrentConnStart)]
    /\ mpc' = "printing"
    /\ UNCHANGED <<config, now, clientVars, done, pc, sendVars, dpc, iter,
                   lastFail, call>>

\* PrintFinalStats has printed the summary; main returns.
FinalPrint ==
    /\ mpc = "printing"
    /\ mpc' = "exited"
    /\ UNCHANGED <<config, now, mgr, clientVars, done, pc, sendVars, dpc,
                   iter, lastFail, call>>

NextRace ==
    \/ CMLoop \/ CMAttempt \/ CMDialFail \/ CMDialFailed \/ CMSleep
    \/ CMDialOk \/ BeginTotal \/ BeginStart \/ BeginMessages \/ CMRender
    \/ CMSendNext \/ CMSendOk \/ CMSendFail \/ CMSendDone
    \/ CMListen \/ ReadCount \/ ReadMessages \/ ReadTime \/ ReadClassify
    \/ ReadClassifyFatal
    \/ CMReadErr \/ EndRead \/ EndUptime \/ EndHistory \/ EndExtremes
    \/ CMReconn
    \/ DrawBegin \/ DrawEnd \/ DisplayStop
    \/ MainInterrupt \/ FinalRead \/ FinalFlush \/ FinalPrint \/ Tick

SpecRace == Init /\ [][NextRace]_vars

(* ------------- SpecLife: the Manager's connection lifecycle ------------- *)
\* IncrementConnectionAttempts, StartNewConnection, HandleResponse,
\* EndConnection, IncrementReconnections and PrintFinalStats called in any
\* order while time passes; PrintFinalStats is the last call.
LifeAttempt ==
    /\ Alive /\ mgr.stats.ConnectionAttempts < MaxLifeCalls
    /\ mgr' = IncrementConnectionAttempts(mgr)
    /\ call' = [NoCall EXCEPT !.op = "IncrementConnectionAttempts"]
    /\ UNCHANGED <<config, now, clientVars, done, pc, sendVars, dpc, mpc,
                   iter, lastFail>>

LifeStart ==
    /\ Alive /\ mgr.stats.TotalConnections < MaxAttempts
    /\ mgr' = StartNewConnection(mgr, now)
    /\ call' = [NoCall EXCEPT !.op = "StartNewConnection"]
    /\ UNCHANGED <<config, now, clientVars, done, pc, sendVars, dpc, mpc,
                   iter, lastFail>>

\* The frames of the lifecycle: every method, result and error, with a
\* numeric id and no params.
LifeFrames ==
    {r \in JSONRPCResponse : r.ID = JNum(2) /\ r.Params = NoParams}

LifeResponse ==
    /\ Alive /\ mgr.stats.EventsReceived < MaxLifeCalls
    /\ \E response \in LifeFrames :
          mgr' = HandleResponse(mgr, response, now)
    /\ call' = [NoCall EXCEPT !.op = "HandleResponse"]
    /\ UNCHANGED <<config, now, clientVars, done, pc, sendVars, dpc, mpc,
                   iter, lastFail>>

LifeEnd ==
    /\ Alive /\ Len(mgr.connectionHistory) < MaxAttempts
    /\ mgr' = EndConnection(mgr, now)
    /\ call' = [NoCall EXCEPT !.op = "EndConnection"]
    /\ UNCHANGED <<config, now, clientVars, done, pc, sendVars, dpc, mpc,
                   iter, lastFail>>

LifeReconnect ==
    /\ Alive /\ mgr.stats.TotalReconnections < MaxLifeCalls
    /\ mgr' = IncrementReconnections(mgr)
    /\ call' = [NoCall EXCEPT !.op = "IncrementReconnections"]
    /\ UNCHANGED <<config, now, clientVars, done, pc, sendVars, dpc, mpc,
                   iter, lastFail>>

LifeFinal ==
    /\ Alive
    /\ mgr' = PrintFinalStats(mgr, totalSubscriptions, now)
    /\ call' = [NoCall EXCEPT !.op = "PrintFinalStats"]
    /\ mpc' = "exited"
    /\ UNCHANGED <<config, now, clientVars, done, pc, sendVars, dpc, iter,
                   lastFail>>

NextLife ==
    \/ LifeAttempt \/ LifeStart \/ LifeResponse \/ LifeEnd \/ LifeReconnect
    \/ LifeFinal \/ Tick

SpecLife == InitEvents /\ [][NextLife]_vars

(* ------------- SpecLive: the program under fair scheduling -------------- *)
\* The steps of the connection goroutine.
ConnectionLoop ==
    \/ CMLoop \/ CMAttempt \/ CMDialFail \/ CMDialFailed \/ CMSleep
    \/ CMDialOk \/ CMBegin \/ CMRender
    \/ CMSendNext \/ CMSendOk \/ CMSendFail \/ CMSendDone
    \/ CMListen \/ CMReadFrame \/ CMReadErr \/ CMEnd \/ CMReconn

\* The interrupt arrives and main closes done; call keeps the attempts and
\* the events counted so far.
LiveInterrupt ==
    /\ mpc = "waiting"
    /\ done' = TRUE
    /\ mpc' = "final"
    /\ call' = [call EXCEPT !.attempts = mgr.stats.ConnectionAttempts,
                            !.events = mgr.stats.EventsReceived]
    /\ UNCHANGED <<config, now, mgr, clientVars, pc, sendVars, dpc, iter,
                   lastFail>>

\* The program at one instant of the clock.  The Go scheduler runs every
\* goroutine that can take a step, a sleep ends, and a dial or a read
\* returns; the display goroutine's select takes the closed done channel.
\* The interrupt is the operator's, and never has to come.
NextLive ==
    \/ ConnectionLoop
    \/ DisplayTick \/ DisplayStop \/ LiveInterrupt \/ MainFinal

SpecLive ==
    /\ Init /\ [][NextLive]_vars
    /\ WF_vars(ConnectionLoop) /\ WF_vars(DisplayStop)

(* ------------- SpecClient: the frames handleResponse is given ------------ *)
\* listenForMessages has decoded a frame and hands it to handleResponse; the
\* frame is kept in call.
ClientReadFrame ==
    /\ Alive /\ pc = "reading"
    /\ mgr.stats.EventsReceived < MaxEvents
    /\ \E response \in JSONRPCResponse :
          /\ mgr' = handleResponse(mgr, idToSubscription, response, now)
          /\ call' = [NoCall EXCEPT !.op = "handleResponse",
                                    !.response = response]
    /\ pc' = "listen"
    /\ UNCHANGED <<config, now, clientVars, done, sendVars, dpc, mpc, iter,
                   lastFail>>

\* The connection goroutine alone, subscribed to newHeads once.
ClientConfigs ==
    { [Subscriptions |-> <<"newHeads">>, SubCount |-> 1, URLValid |-> TRUE] }

NextClient ==
    \/ CMLoop \/ CMAttempt \/ CMDialFail \/ CMDialFailed \/ CMSleep
    \/ CMDialOk \/ CMBegin \/ CMRender
    \/ CMSendNext \/ CMSendOk \/ CMSendFail \/ CMSendDone
    \/ CMListen \/ ClientReadFrame \/ CMReadErr \/ CMEnd \/ CMReconn

SpecClient == InitWith(ClientConfigs) /\ [][NextClient]_vars

(* ------------- SpecOps: the Manager's operations in any order ------------ *)
\* The operations of SpecLife at one instant of the clock.
NextOps ==
    \/ LifeAttempt \/ LifeStart \/ LifeResponse \/ LifeEnd \/ LifeReconnect
    \/ LifeFinal

SpecOps == InitEvents /\ [][NextOps]_vars

(* ============================== claims ================================= *)
Count(m, type) == MapGet(m.messagesByType, type, 0)

\* What a step adds to the three categorized counters.
dSub == mgr'.stats.SubscriptionEvents - mgr.stats.SubscriptionEvents
dConf == mgr'.stats.ConfirmationEvents - mgr.stats.ConfirmationEvents
dErr == mgr'.stats.ErrorEvents - mgr.stats.ErrorEvents

\* The shapes of section 4.1.
IsNotification(r) == r.Method = "eth_subscription"
IsConfirmation(r) == r.Result.kind # "nil" /\ r.ID.kind = "num"
IsErrorFrame(r) == r.Error.kind # "nil"

(* C1: when the read of a connection fails, that loop iteration has called  *)
(* StartNewConnection once, EndConnection once (the history holds the      *)
(* record of this connection) and IncrementReconnections once; the next    *)
(* iteration adds one to ConnectionAttempts and leaves TotalConnections,   *)
(* which changes only in the step after a successful dial.                 *)
C1_ReadFailureOnce ==
    /\ [](pc = "sleep2" =>
            /\ iter.attempt = 1 /\ iter.begin = 1
            /\ iter.end = 1 /\ iter.reconn = 1
            /\ Len(mgr.connectionHistory) = mgr.stats.TotalConnections
            /\ Last(mgr.connectionHistory).ConnectionNum =
                   mgr.stats.TotalConnections)
    /\ [][(lastFail = "read" /\ pc = "attempt" /\ pc' # "attempt") =>
            /\ mgr'.stats.ConnectionAttempts = mgr.stats.ConnectionAttempts + 1
            /\ mgr'.stats.TotalConnections = mgr.stats.TotalConnections]_vars
    /\ [][(mgr'.stats.TotalConnections # mgr.stats.TotalConnections) =>
            /\ pc = "begin"
            /\ mgr'.stats.TotalConnections = mgr.stats.TotalConnections + 1]_vars
    /\ [][(pc' = "begin" /\ pc # "begin") => pc = "dial"]_vars

\* The server closed the socket right after the handshake, and the loop is
\* dialling again: two attempts, one connection.
C1_Witness ==
    /\ lastFail = "read" /\ pc = "dial"
    /\ mgr.stats.EventsReceived = 0
    /\ mgr.stats.ConnectionAttempts = 2
    /\ mgr.stats.TotalConnections = 1
    /\ mgr.stats.TotalReconnections = 1
    /\ Len(mgr.connectionHistory) = 1

(* C2: while no connection has begun TotalReconnections is 0, whatever the  *)
(* number of IncrementReconnections calls; once one has begun every call   *)
(* adds exactly 1, and nothing else changes the counter.                   *)
C2_ReconnectionGuard ==
    /\ [](mgr.stats.TotalConnections = 0 => mgr.stats.TotalReconnections = 0)
    /\ [][(iter'.reconn = iter.reconn + 1) =>
            mgr'.stats.TotalReconnections =
                IF mgr.stats.TotalConnections > 0
                THEN mgr.stats.TotalReconnections + 1
                ELSE 0]_vars
    /\ [][(mgr'.stats.TotalReconnections # mgr.stats.TotalReconnections) =>
            iter'.reconn = iter.reconn + 1]_vars

\* Two dials have failed before any connection: two calls, counter 0.
C2_Witness ==
    /\ pc = "sleep5" /\ iter.reconn = 1
    /\ mgr.stats.ConnectionAttempts = 2
    /\ mgr.stats.TotalConnections = 0
    /\ mgr.stats.TotalReconnections = 0

(* C3: after N HandleResponse calls since the last StartNewConnection,     *)
(* CurrentConnMessages is N; when none was made before it, EventsReceived  *)
(* is N too and the three categorized counters sum to at most N.           *)
C3_EventCounts ==
    /\ mgr.stats.CurrentConnMessages = call.n
    /\ mgr.stats.EventsReceived = call.before + call.n
    /\ call.before = 0 =>
          /\ mgr.stats.EventsReceived = call.n
          /\ mgr.stats.SubscriptionEvents + mgr.stats.ConfirmationEvents
                + mgr.stats.ErrorEvents <= call.n

\* Two frames on a fresh connection, one of them not categorized.
C3_Witness ==
    /\ mgr.stats.TotalConnections = 1
    /\ call.before = 0 /\ call.n = 2
    /\ mgr.stats.EventsReceived = 2
    /\ mgr.stats.SubscriptionEvents + mgr.stats.ConfirmationEvents
          + mgr.stats.ErrorEvents = 1

(* C4: a HandleResponse call adds 1 to at most one of SubscriptionEvents,  *)
(* ConfirmationEvents, ErrorEvents: to the first for method                *)
(* eth_subscription, else to the second for a result with a numeric id,    *)
(* else, with no result, to the third for an error.                        *)
C4_CountedOnce ==
    [][call'.op = "HandleResponse" =>
         LET r == call'.response
         IN  /\ dSub \in {0, 1} /\ dConf \in {0, 1} /\ dErr \in {0, 1}
             /\ dSub + dConf + dErr <= 1
             /\ IsNotification(r) => dSub = 1
             /\ (~IsNotification(r) /\ IsConfirmation(r)) => dConf = 1
             /\ (~IsNotification(r) /\ r.Result.kind = "nil" /\ IsErrorFrame(r))
                    => dErr = 1]_vars

\* A frame with the method, a result, a numeric id and an error was handled:
\* it is a subscription event only.
C4_Witness ==
    /\ call.op = "HandleResponse" /\ call.n = 1 /\ call.before = 0
    /\ IsNotification(call.response)
    /\ IsConfirmation(call.response)
    /\ IsErrorFrame(call.response)
    /\ mgr.stats.SubscriptionEvents = 1
    /\ mgr.stats.ConfirmationEvents = 0
    /\ mgr.stats.ErrorEvents = 0

(* C5: every frame that is not a Notification and not a Confirmation and   *)
(* has an error adds exactly 1 to ErrorEvents, also when it carries a      *)
(* result with a missing or non-numeric id; the three counters stay only   *)
(* for frames of none of the three shapes.                                 *)
C5_ErrorAlwaysCounted ==
    [][call'.op = "HandleResponse" =>
         LET r == call'.response
         IN  /\ (~IsNotification(r) /\ ~IsConfirmation(r) /\ IsErrorFrame(r))
                    => (dErr = 1 /\ dSub = 0 /\ dConf = 0)
             /\ (dSub = 0 /\ dConf = 0 /\ dErr = 0)
                    => (~IsNotification(r) /\ ~IsConfirmation(r)
                        /\ ~IsErrorFrame(r))]_vars

(* C6: a frame with no method, no result and no error adds 1 to            *)
(* EventsReceived and to CurrentConnMessages and leaves the three          *)
(* categorized counters and the per-type counts.                           *)
C6_UncategorizedFrame ==
    [][call'.op = "HandleResponse" =>
         LET r == call'.response
         IN  (r.Method = "" /\ r.Result.kind = "nil" /\ r.Error.kind = "nil") =>
                /\ mgr'.stats.EventsReceived = mgr.stats.EventsReceived + 1
                /\ mgr'.stats.CurrentConnMessages =
                       mgr.stats.CurrentConnMessages + 1
                /\ dSub = 0 /\ dConf = 0 /\ dErr = 0
                /\ mgr'.messagesByType = mgr.messagesByType]_vars

\* Such a frame, with a params object naming a registered handle, was handled.
C6_Witness ==
    /\ call.op = "HandleResponse" /\ call.before + call.n = 2
    /\ call.response.Method = ""
    /\ call.response.Result.kind = "nil"
    /\ call.response.Error.kind = "nil"
    /\ call.response.Params.hasSub
    /\ Sprint(call.response.Params.sub) \in DOMAIN mgr.subIDToType
    /\ mgr.stats.EventsReceived = 2
    /\ mgr.stats.SubscriptionEvents = 1
    /\ Count(mgr, "unknown") = 1

\* SetSubscriptionMapping(h, t) sets the entry of h and no other, and no
\* other method changes the registry.
RegistryLastWrite ==
    IF call'.op = "SetSubscriptionMapping"
    THEN /\ call'.id \in DOMAIN mgr'.subIDToType
         /\ mgr'.subIDToType[call'.id] = call'.type
         /\ DOMAIN mgr'.subIDToType = DOMAIN mgr.subIDToType \cup {call'.id}
         /\ \A h \in DOMAIN mgr.subIDToType \ {call'.id} :
                mgr'.subIDToType[h] = mgr.subIDToType[h]
    ELSE mgr'.subIDToType = mgr.subIDToType

\* A Notification naming a handle registered with a type of `types` adds 1
\* to the count of that type and leaves the count of "unknown".
AttributedWithin(types) ==
    call'.op = "HandleResponse" =>
        LET r == call'.response
            h == Sprint(r.Params.sub)
        IN  (/\ IsNotification(r) /\ r.Params.hasSub
             /\ h \in DOMAIN mgr.subIDToType
             /\ mgr.subIDToType[h] \in types) =>
               /\ Count(mgr', mgr.subIDToType[h]) =
                      Count(mgr, mgr.subIDToType[h]) + 1
               /\ Count(mgr', "unknown") = Count(mgr, "unknown")

(* C7, as stated: after SetSubscriptionMapping(h, t), for every handle h    *)
(* and type t, every Notification naming h adds 1 to the count of t and    *)
(* nothing to the count of "unknown", until h is registered again.         *)
C7_AttributedEveryType ==
    [][RegistryLastWrite /\ AttributedWithin(Types)]_vars

(* C7, amended: the same for every type t other than the empty string and  *)
(* "unknown".                                                              *)
C7_AttributedNamedType ==
    [][RegistryLastWrite /\ AttributedWithin(Types \ {"", "unknown"})]_vars

\* A Notification naming the handle by the number 1 went to the type under
\* which "1" is registered.
C7_Witness ==
    /\ call.op = "HandleResponse" /\ call.n = 1 /\ call.before = 0
    /\ IsNotification(call.response)
    /\ call.response.Params = ParamsSub(JNum(2))
    /\ "1" \in DOMAIN mgr.subIDToType
    /\ mgr.subIDToType["1"] = "newHeads"
    /\ Count(mgr, "newHeads") = 1
    /\ Count(mgr, "unknown") = 0

(* C8: a Notification naming a handle that is not in the registry adds 1   *)
(* to SubscriptionEvents and to the count of "unknown" and to nothing      *)
(* else: no error is counted and the registry is as it was.                *)
C8_UnknownHandle ==
    [][call'.op = "HandleResponse" =>
         LET r == call'.response
         IN  (/\ IsNotification(r) /\ r.Params.hasSub
              /\ Sprint(r.Params.sub) \notin DOMAIN mgr.subIDToType) =>
                /\ dSub = 1 /\ dConf = 0 /\ dErr = 0
                /\ Count(mgr', "unknown") = Count(mgr, "unknown") + 1
                /\ DOMAIN mgr'.messagesByType =
                       DOMAIN mgr.messagesByType \cup {"unknown"}
                /\ \A type \in DOMAIN mgr.messagesByType \ {"unknown"} :
                       Count(mgr', type) = Count(mgr, type)
                /\ mgr'.subIDToType = mgr.subIDToType]_vars

\* The Notification came before the handle "1" was registered.
C8_Witness ==
    /\ call.op = "HandleResponse" /\ call.n = 1 /\ call.before = 0
    /\ IsNotification(call.response)
    /\ call.response.Params = ParamsSub(JStr("1"))
    /\ "1" \notin DOMAIN mgr.subIDToType
    /\ mgr.stats.SubscriptionEvents = 1
    /\ mgr.stats.ErrorEvents = 0
    /\ Count(mgr, "unknown") = 1

(* C9: a send phase without a failed write, for k entries that are not     *)
(* empty after trimming and an instance count c >= 1, has written exactly  *)
(* k*c subscribe requests, with the ids 1..k*c in this order, and has      *)
(* added k*c to totalSubscriptions.                                        *)
NonEmptyEntries ==
    Cardinality({i \in 1..Len(subTypes) : TrimSpace(subTypes[i]) # ""})

SendPhaseOver == pc \in {"listen", "reading", "endConn", "reconn", "sleep2"}

C9_SendPhase ==
    (SendPhaseOver /\ ~iter.sendFailed /\ config.SubCount >= 1) =>
        /\ Len(wire) = NonEmptyEntries * config.SubCount
        /\ \A i \in 1..Len(wire) :
               wire[i].ID = i /\ wire[i].Method = "eth_subscribe"
        /\ totalSubscriptions =
               iter.subs0 + NonEmptyEntries * config.SubCount

\* "newHeads,logs" with two instances, on the first connection.
C9_Witness ==
    /\ config.Subscriptions = <<"newHeads", ",", "logs">>
    /\ config.SubCount = 2
    /\ pc = "listen" /\ ~iter.sendFailed
    /\ mgr.stats.TotalConnections = 1
    /\ Len(wire) = 4
    /\ {wire[i].ID : i \in 1..4} = 1..4
    /\ totalSubscriptions = 4

(* C10: every read and write of the statistics is mutually exclusive: no   *)
(* draw of the display goroutine, and no PrintFinalStats of main, runs     *)
(* while StartNewConnection, EndConnection or HandleResponse of the        *)
(* connection loop is between two of its writes.                           *)
ManagerWriting ==
    pc \in {"begin.start", "begin.msgs", "handle.msgs", "handle.time",
            "handle.classify", "end.write", "end.history", "end.extremes"}

ManagerReading == dpc = "drawing" \/ mpc \in {"flush", "printing"}

C10_MutualExclusion == ~(ManagerWriting /\ ManagerReading)

\* In SpecLife every step but Tick is a call, named in call.op.
Called(op) == call'.op = op /\ now' = now

\* A connection is open when it has begun and EndConnection has not
\* recorded it.
ConnectionOpen(m) == Len(m.connectionHistory) < m.stats.TotalConnections

(* C11: PrintFinalStats adds the elapsed time of the current connection to  *)
(* TotalUptime only if that connection is still open; after EndConnection  *)
(* has recorded the last connection its time is not added again.           *)
C11_FlushOnlyOpen ==
    [][(mpc = "final" /\ mpc' = "exited") =>
          mgr'.stats.TotalUptime =
              IF ConnectionOpen(mgr)
              THEN mgr.stats.TotalUptime + (now - mgr.stats.CurrentConnStart)
              ELSE mgr.stats.TotalUptime]_vars

(* C12: on a fresh Manager, StartNewConnection followed by EndConnection   *)
(* adds a duration d >= 0 to TotalUptime and leaves LongestConnection =    *)
(* ShortestConnection = d; d is 0 when no time has passed.                 *)
C12_FirstEndSetsBoth ==
    [][(/\ Called("EndConnection")
        /\ mgr.stats.TotalConnections > 0
        /\ mgr.connectionHistory = <<>>) =>
          LET d == now - mgr.stats.CurrentConnStart
          IN  /\ d >= 0
              /\ mgr'.stats.TotalUptime = mgr.stats.TotalUptime + d
              /\ mgr'.stats.LongestConnection = d
              /\ mgr'.stats.ShortestConnection = d]_vars

\* StartNewConnection and at once EndConnection: the duration is 0.
C12_Witness ==
    /\ call.op = "EndConnection"
    /\ mgr.stats.TotalConnections = 1
    /\ Len(mgr.connectionHistory) = 1
    /\ mgr.connectionHistory[1].Duration = 0
    /\ mgr.stats.TotalUptime = 0
    /\ mgr.stats.LongestConnection = 0
    /\ mgr.stats.ShortestConnection = 0

\* The durations the history records.
Durations(m) ==
    {m.connectionHistory[i].Duration : i \in 1..Len(m.connectionHistory)}

(* C13: once a connection has ended, LongestConnection is the maximum and  *)
(* ShortestConnection the minimum of the durations in the history, also    *)
(* when a recorded duration is 0.                                          *)
C13_ExtremaOfHistory ==
    mgr.connectionHistory # <<>> =>
        /\ mgr.stats.LongestConnection \in Durations(mgr)
        /\ mgr.stats.ShortestConnection \in Durations(mgr)
        /\ \A d \in Durations(mgr) :
               /\ d <= mgr.stats.LongestConnection
               /\ d >= mgr.stats.ShortestConnection

(* C14: EndConnection while TotalConnections = 0 changes nothing of the    *)
(* Manager: not TotalUptime, the history, the extrema or any counter.      *)
C14_EndBeforeBeginNoOp ==
    [][(Called("EndConnection") /\ mgr.stats.TotalConnections = 0) =>
          mgr' = mgr]_vars

\* EndConnection was called at time 1 on a Manager with one counted
\* attempt and no connection.
C14_Witness ==
    /\ call.op = "EndConnection"
    /\ now = 1
    /\ mgr.stats.ConnectionAttempts = 1
    /\ mgr.stats.TotalConnections = 0
    /\ mgr.connectionHistory = <<>>
    /\ mgr.stats.TotalUptime = 0

(* C15: EndConnection with TotalConnections > 0 appends exactly one record *)
(* to the history: its number is TotalConnections, its message count is    *)
(* CurrentConnMessages, its duration is the time since CurrentConnStart;   *)
(* the same duration is added to TotalUptime.                              *)
C15_EndAppendsRecord ==
    [][(Called("EndConnection") /\ mgr.stats.TotalConnections > 0) =>
          LET d == now - mgr.stats.CurrentConnStart
              n == Len(mgr.connectionHistory)
          IN  /\ Len(mgr'.connectionHistory) = n + 1
              /\ SubSeq(mgr'.connectionHistory, 1, n) = mgr.connectionHistory
              /\ Last(mgr'.connectionHistory).ConnectionNum =
                     mgr.stats.TotalConnections
              /\ Last(mgr'.connectionHistory).Messages =
                     mgr.stats.CurrentConnMessages
              /\ Last(mgr'.connectionHistory).Duration = d
              /\ mgr'.stats.TotalUptime = mgr.stats.TotalUptime + d]_vars

\* The second connection ended after one tick with one message.
C15_Witness ==
    /\ call.op = "EndConnection"
    /\ mgr.stats.TotalConnections = 2
    /\ Len(mgr.connectionHistory) = 1
    /\ Last(mgr.connectionHistory).ConnectionNum = 2
    /\ Last(mgr.connectionHistory).Messages = 1
    /\ Last(mgr.connectionHistory).Duration = 1
    /\ mgr.stats.TotalUptime = 1

(* C16: StartNewConnection adds 1 to TotalConnections, sets                *)
(* CurrentConnMessages to 0 and CurrentConnStart to now, and leaves        *)
(* EventsReceived, the three categorized counters, TotalReconnections,     *)
(* ConnectionAttempts, TotalUptime and the history.                        *)
C16_StartFrame ==
    [][Called("StartNewConnection") =>
          /\ mgr'.stats.TotalConnections = mgr.stats.TotalConnections + 1
          /\ mgr'.stats.CurrentConnMessages = 0
          /\ mgr'.stats.CurrentConnStart = now
          /\ mgr'.stats.EventsReceived = mgr.stats.EventsReceived
          /\ dSub = 0 /\ dConf = 0 /\ dErr = 0
          /\ mgr'.stats.TotalReconnections = mgr.stats.TotalReconnections
          /\ mgr'.stats.ConnectionAttempts = mgr.stats.ConnectionAttempts
          /\ mgr'.stats.TotalUptime = mgr.stats.TotalUptime
          /\ mgr'.connectionHistory = mgr.connectionHistory]_vars

\* The second connection began at time 1, after a message, an ended
\* connection and a reconnection.
C16_Witness ==
    /\ call.op = "StartNewConnection"
    /\ mgr.stats.TotalConnections = 2
    /\ mgr.stats.CurrentConnStart = 1
    /\ mgr.stats.CurrentConnMessages = 0
    /\ mgr.stats.EventsReceived = 1
    /\ mgr.stats.TotalReconnections = 1
    /\ mgr.stats.ConnectionAttempts = 1
    /\ mgr.stats.TotalUptime = 1
    /\ Len(mgr.connectionHistory) = 1

(* C17: IncrementConnectionAttempts runs before every dial, failed or not, *)
(* and StartNewConnection only after a successful dial, so                 *)
(* TotalConnections <= ConnectionAttempts in every reachable state.        *)
C17_ConnectionsWithinAttempts ==
    /\ mgr.stats.TotalConnections <= mgr.stats.ConnectionAttempts
    /\ pc \in {"dial", "dialFailed", "begin"} => iter.attempt = 1
    /\ iter.begin <= iter.attempt
    /\ pc = "dial" => mgr.stats.TotalConnections < mgr.stats.ConnectionAttempts

\* The first dial failed and the second made the first connection.
C17_Witness ==
    /\ pc = "render" /\ lastFail = "dial"
    /\ mgr.stats.ConnectionAttempts = 2
    /\ mgr.stats.TotalConnections = 1

(* C18: once the loop runs, no dial, read or send failure and no frame,    *)
(* under any interleaving of the connection loop with the display          *)
(* goroutine, stops the process: it ends only after the interrupt.         *)
C18_OnlyInterruptEnds ==
    /\ mpc # "crashed"
    /\ mpc = "exited" => done

\* The success rate is a percentage.
RateInRange(r) == r.den > 0 /\ 0 <= r.num /\ r.num <= 100 * r.den

C20_IdsPerConnection ==
    /\ \A i, j \in 1..Len(wire) : i < j => wire[i].ID < wire[j].ID
    /\ \A i \in 1..Len(wire) : 1 <= wire[i].ID /\ wire[i].ID < requestID
    /\ (pc = "send" /\ wire = <<>> /\ ~iter.sendFailed) => requestID = 1
    /\ (wire # <<>> /\ ~iter.sendFailed
          /\ (pc = "send" \/ SendPhaseOver)) => wire[1].ID = 1

\* The second connection has sent two requests, numbered from 1 again.
C20_Witness ==
    /\ pc = "listen" /\ ~iter.sendFailed
    /\ mgr.stats.TotalConnections = 2
    /\ Len(wire) = 2
    /\ wire[1].ID = 1 /\ wire[2].ID = 2
    /\ totalSubscriptions = 4

\* C21: the connection history is append-only: a step either leaves it as it
\* is or adds one record after the existing ones, which stay as they were;
\* under the connection manager every record's ConnectionNum is at least 1
\* and greater than that of the record before it.
HistoryAppended ==
    LET h == mgr.connectionHistory
    IN  \/ mgr'.connectionHistory = h
        \/ /\ Len(mgr'.connectionHistory) = Len(h) + 1
           /\ SubSeq(mgr'.connectionHistory, 1, Len(h)) = h

HistoryNumbered ==
    LET h == mgr.connectionHistory
    IN  \A i \in 1..Len(h) :
            /\ h[i].ConnectionNum >= 1
            /\ i > 1 => h[i].ConnectionNum > h[i-1].ConnectionNum

C21_HistoryAppendOnly == [][HistoryAppended]_vars /\ []HistoryNumbered

C21_Witness ==
    /\ Len(mgr.connectionHistory) = 2
    /\ mgr.connectionHistory[1].ConnectionNum = 1
    /\ mgr.connectionHistory[2].ConnectionNum = 2
    /\ mgr.connectionHistory[1].Messages = 1

\* C22: TotalUptime changes only in the step that calls EndConnection and in
\* the step that calls PrintFinalStats: the steps that call
\* IncrementConnectionAttempts, StartNewConnection, IncrementReconnections,
\* HandleResponse, SetSubscriptionMapping and DisplayRunningStats leave it
\* as it is.
C22_UptimeFrame ==
    [][mgr'.stats.TotalUptime # mgr.stats.TotalUptime
         => \/ pc = "endConn" /\ pc' = "reconn"
            \/ mpc = "final" /\ mpc' = "exited"]_vars

C22_Witness ==
    /\ pc = "sleep2" /\ mgr.stats.TotalUptime = 1
    /\ mgr.stats.TotalConnections = 1 /\ mgr.stats.TotalReconnections = 1
    /\ mgr.stats.EventsReceived = 1 /\ mgr.subIDToType # EmptyMap

\* C23: ConnectionAttempts, TotalConnections, TotalReconnections,
\* EventsReceived, SubscriptionEvents, ConfirmationEvents and ErrorEvents
\* never decrease, whatever the order of the Manager's operations;
\* CurrentConnMessages decreases only in StartNewConnection, which resets it.
CumulativeCounters ==
    {"ConnectionAttempts", "TotalConnections", "TotalReconnections",
     "EventsReceived", "SubscriptionEvents", "ConfirmationEvents",
     "ErrorEvents"}

C23_MonotonicCounters ==
    [][/\ \A c \in CumulativeCounters : mgr'.stats[c] >= mgr.stats[c]
       /\ mgr'.stats.CurrentConnMessages < mgr.stats.CurrentConnMessages
            => /\ Called("StartNewConnection")
               /\ mgr'.stats.CurrentConnMessages = 0]_vars

C23_Witness ==
    /\ call.op = "StartNewConnection"
    /\ mgr.stats.CurrentConnMessages = 0 /\ mgr.stats.EventsReceived = 1
    /\ mgr.stats.TotalConnections = 2 /\ Len(mgr.connectionHistory) = 1

\* C24: the params of every subscribe request written are determined by the
\* type it subscribes to: the type name alone for newHeads and
\* newPendingTransactions; "logs" and a filter object whose topics array
\* holds one null for logs; the name as it is, alone, for any other type.
RequestType(i) == MapGet(idToSubscription, wire[i].ID, "")

C24_ParamsByType ==
    \A i \in 1..Len(wire) :
        LET sub == RequestType(i)
            params == wire[i].Params
        IN  /\ sub # ""
            /\ params[1] = sub
            /\ sub \in {"newHeads", "newPendingTransactions"}
                 => Len(params) = 1
            /\ sub = "logs"
                 => /\ Len(params) = 2
                    /\ DOMAIN params[2] = {"topics"}
                    /\ params[2].topics = <<JNil>>
            /\ sub \notin {"newHeads", "newPendingTransactions", "logs"}
                 => Len(params) = 1

\* One connection has subscribed to newPendingTransactions, logs and Logs.
C24_Witness ==
    /\ pc = "listen" /\ Len(wire) = 3
    /\ RequestType(1) = "newPendingTransactions" /\ Len(wire[1].Params) = 1
    /\ RequestType(2) = "logs" /\ Len(wire[2].Params) = 2
    /\ RequestType(3) = "Logs" /\ Len(wire[3].Params) = 1

\* C25: an iteration of the connection loop whose URL parses goes from the
\* loop head to the dial, and, when the dial fails, back to the loop head
\* after the backoff; when it succeeds, through StartNewConnection, one
\* DisplayRunningStats, the whole of sendSubscriptions and then the read
\* loop, from which a failure leads back to the loop head after the backoff.
\* An iteration whose URL does not parse sleeps and returns to the loop head
\* without dialing.  No frame is read before sendSubscriptions has returned,
\* and no request is written in an iteration whose dial has not succeeded.
IterationFlow ==
    { <<"loop", "attempt">>, <<"loop", "exited">>,
      <<"attempt", "dial">>,
      <<"dial", "dialFailed">>, <<"dialFailed", "sleep5">>,
      <<"sleep5", "loop">>,
      <<"dial", "begin">>, <<"begin", "render">>, <<"render", "send">>,
      <<"send", "listen">>,
      <<"listen", "reading">>, <<"reading", "listen">>, <<"listen", "loop">>,
      <<"reading", "endConn">>, <<"endConn", "reconn">>,
      <<"reconn", "sleep2">>, <<"sleep2", "loop">> }

IterationWithin(flow) ==
    /\ pc' # pc => <<pc, pc'>> \in flow
    /\ mgr'.stats.TotalConnections # mgr.stats.TotalConnections
         => pc = "begin" /\ iter.attempt = 1 /\ iter.begin = 0
    /\ mgr'.stats.EventsReceived # mgr.stats.EventsReceived
         => /\ pc = "reading" /\ iter.begin = 1
            /\ subIdx > Len(subTypes)
    /\ (wire' # wire /\ wire' # <<>>)
         => pc = "send" /\ iter.begin = 1

C25_IterationOrder ==
    [][/\ IterationWithin(IterationFlow \cup {<<"loop", "sleep5">>})
       /\ (pc = "loop" /\ pc' = "sleep5") => ~config.URLValid]_vars

\* C25 as stated: every iteration leaves the loop head for the dial.
C25_EveryIterationDials == [][IterationWithin(IterationFlow)]_vars

C25_Witness ==
    /\ pc = "listen" /\ ~done /\ iter.attempt = 1 /\ iter.begin = 1
    /\ Len(wire) = 1 /\ subIdx > Len(subTypes)
    /\ mgr.stats.EventsReceived = 1 /\ mgr.stats.CurrentConnMessages = 1

\* C26: when ReadJSON fails, the connection manager calls EndConnection and
\* then IncrementReconnections, once each and in that order; it handles no
\* further frame of that connection, and goes back to the loop head, from
\* where the only way to the read loop is a new dial.
AfterReadError == pc \in {"endConn", "reconn", "sleep2"}

ReadErrorHandled ==
    /\ pc = "endConn" => iter.end = 0 /\ iter.reconn = 0
    /\ pc = "reconn" => iter.end = 1 /\ iter.reconn = 0
    /\ pc = "sleep2" => iter.end = 1 /\ iter.reconn = 1

ReadErrorStep ==
    /\ (pc = "endConn" /\ pc' # pc)
         => /\ pc' = "reconn"
            /\ Len(mgr'.connectionHistory) = Len(mgr.connectionHistory) + 1
            /\ mgr'.stats.TotalReconnections = mgr.stats.TotalReconnections
    /\ (pc = "reconn" /\ pc' # pc)
         => /\ pc' = "sleep2"
            /\ mgr'.connectionHistory = mgr.connectionHistory
            /\ mgr'.stats.TotalReconnections
                 = mgr.stats.TotalReconnections + 1
    /\ (pc = "sleep2" /\ pc' # pc) => pc' = "loop" /\ mgr' = mgr
    /\ AfterReadError
         => mgr'.stats.EventsReceived = mgr.stats.EventsReceived
    /\ (pc = "loop" /\ pc' # pc) => pc' \in {"attempt", "sleep5", "exited"}
    /\ (pc' = "listen" /\ pc' # pc) => pc \in {"send", "reading"}
    /\ (pc' = "send" /\ pc' # pc) => pc = "render" /\ iter.attempt = 1

C26_ReadError == [][ReadErrorStep]_vars /\ []ReadErrorHandled

C26_Witness ==
    /\ pc = "sleep2" /\ iter.end = 1 /\ iter.reconn = 1
    /\ mgr.stats.EventsReceived = 1 /\ mgr.stats.TotalReconnections = 1
    /\ Len(mgr.connectionHistory) = 1 /\ mgr.stats.ConnectionAttempts = 1

\* C27: there is no retry limit: while done is not closed, a dial failure or
\* a read failure is followed, whatever the number of attempts made so far,
\* by another IncrementConnectionAttempts, provided the connection goroutine
\* keeps running and its sleeps end.  (The attempts of the model stop at
\* MaxAttempts.)
C27_NoRetryLimit ==
    \A n \in 1..(MaxAttempts - 1) :
        (pc \in {"dialFailed", "endConn"} /\ mgr.stats.ConnectionAttempts = n)
            ~> (done \/ mgr.stats.ConnectionAttempts > n)

\* A second attempt follows a dial that failed, and a read that failed.
C27_Witness ==
    /\ pc = "dial" /\ ~done /\ mgr.stats.ConnectionAttempts = MaxAttempts
    /\ lastFail \in {"dial", "read"}

\* C28: done is looked at before every iteration of the connection loop and
\* of the read loop: once it is closed, the connection manager records at
\* most one more attempt, that of the iteration which had passed the check,
\* and handles at most one more frame, that of the read which had begun; no
\* attempt and no read is begun after that.
C28_CancelChecked ==
    done =>
        /\ mgr.stats.ConnectionAttempts <= call.attempts + 1
        /\ mgr.stats.EventsReceived <= call.events + 1
        /\ mgr.stats.ConnectionAttempts = call.attempts + 1 => pc # "attempt"
        /\ mgr.stats.EventsReceived = call.events + 1 => pc # "reading"

\* done was closed after the check of an iteration, which went on to record
\* its attempt; the loop has returned at its next check.
C28_Witness ==
    /\ done /\ pc = "exited" /\ Alive
    /\ call.attempts = 1
    /\ mgr.stats.ConnectionAttempts = call.attempts + 1

\* C29: once done is closed, the display goroutine stops ticking and the
\* connection loop returns, provided both goroutines keep running and the
\* dial, the read and the sleeps in progress return; however long main takes
\* over the final statistics (when main returns the process is over, and
\* both goroutines with it).
C29_CancelStops ==
    /\ done ~> (dpc = "stopped" \/ ~Alive)
    /\ done ~> (pc = "exited" \/ ~Alive)

C29_Witness ==
    /\ done /\ Alive /\ dpc = "stopped" /\ pc = "exited"
    /\ mgr.stats.TotalConnections = 1 /\ lastFail = "cancel"

\* C30: every decoded frame is handed to HandleResponse once, and
\* SetSubscriptionMapping(result, tracked type) is called exactly for the
\* frames that are confirmations (so not notifications), whose id is tracked
\* and whose result is a string; no other step writes the registry.
TrackedConfirmation(r) ==
    /\ ~IsNotification(r) /\ IsConfirmation(r)
    /\ IntOf(r.ID.n2) \in DOMAIN idToSubscription
    /\ r.Result.kind = "str"

C30_MappingOnConfirmation ==
    [][IF pc = "reading" /\ pc' = "listen"
       THEN LET r == call'.response
            IN  /\ mgr'.stats.EventsReceived = mgr.stats.EventsReceived + 1
                /\ TrackedConfirmation(r)
                     => MapGet(mgr'.subIDToType, r.Result.s, "")
                          = idToSubscription[IntOf(r.ID.n2)]
                /\ ~TrackedConfirmation(r)
                     => mgr'.subIDToType = mgr.subIDToType
       ELSE mgr'.subIDToType = mgr.subIDToType]_vars

\* C31: a WriteJSON that fails does not end the batch.  The step uses up the
\* request id and leaves totalSubscriptions, subscriptionIDs and
\* idToSubscription as they were; every request written carries the current
\* id, which then grows, so the id is not used again on the connection; and
\* when sendSubscriptions returns, every entry and instance has been tried:
\* the ids used are 1 .. types x instances, whether or not a write failed.
SendFailureStep ==
    /\ sendFails' # sendFails
         => /\ pc = "send" /\ pc' = "send"
            /\ requestID' = requestID + 1
            /\ wire' = wire
            /\ UNCHANGED clientVars
    /\ (wire' # wire /\ wire' # <<>>)
         => /\ Len(wire') = Len(wire) + 1
            /\ Last(wire').ID = requestID
            /\ requestID' = requestID + 1
            /\ totalSubscriptions' = totalSubscriptions + 1

BatchTried ==
    SendPhaseOver =>
        /\ requestID - 1 = NonEmptyEntries * config.SubCount
        /\ Len(wire) = totalSubscriptions - iter.subs0
        /\ Len(wire) >= NonEmptyEntries * config.SubCount - sendFails
        /\ iter.sendFailed => Len(wire) < NonEmptyEntries * config.SubCount

C31_SendFailureSkipsOne == [][SendFailureStep]_vars /\ []BatchTried

\* "newHeads,logs" twice each: the write of the request 2 failed, and the
\* requests 3 and 4 were written after it.
C31_Witness ==
    /\ config.Subscriptions = <<"newHeads", ",", "logs">>
    /\ config.SubCount = 2
    /\ pc = "listen" /\ iter.sendFailed
    /\ mgr.stats.TotalConnections = 1
    /\ {wire[i].ID : i \in 1..Len(wire)} = {1, 3, 4}
    /\ totalSubscriptions = 3
    /\ DOMAIN idToSubscription = {1, 3, 4}

\* C32: the TotalUptime that PrintFinalStats reports is at most the runtime
\* of the client, time.Since(ClientStartTime), at the same moment.
C32_UptimeWithinRuntime ==
    mpc = "exited" => mgr.stats.TotalUptime <= now - mgr.stats.ClientStartTime

\* C33: under the connection manager, while a connection is open (it has
\* begun and has not been ended), EventsReceived is the sum of the Messages
\* of the history records plus CurrentConnMessages.
RECURSIVE SumMessages(_)
SumMessages(h) ==
    IF h = <<>> THEN 0 ELSE h[1].Messages + SumMessages(Tail(h))

C33_EventsAccounted ==
    ConnectionOpen(mgr) =>
        mgr.stats.EventsReceived
            = SumMessages(mgr.connectionHistory)
                + mgr.stats.CurrentConnMessages

\* The second connection is open; the frame of the first is in its record.
C33_Witness ==
    /\ ConnectionOpen(mgr) /\ pc = "listen"
    /\ mgr.stats.TotalConnections = 2 /\ Len(mgr.connectionHistory) = 1
    /\ mgr.connectionHistory[1].Messages = 1
    /\ mgr.stats.EventsReceived = 1 /\ mgr.stats.CurrentConnMessages = 0

\* C34: until PrintFinalStats flushes the current connection, TotalUptime is
\* the sum of the Duration of the history records.
RECURSIVE SumDurations(_)
SumDurations(h) ==
    IF h = <<>> THEN 0 ELSE h[1].Duration + SumDurations(Tail(h))

C34_UptimeIsHistory ==
    mpc # "exited" =>
        mgr.stats.TotalUptime = SumDurations(mgr.connectionHistory)

\* Two connections have ended, the second one a time unit after it began.
C34_Witness ==
    /\ mpc # "exited" /\ Len(mgr.connectionHistory) = 2
    /\ mgr.connectionHistory[1].Duration = 0
    /\ mgr.connectionHistory[2].Duration = 1
    /\ mgr.connectionHistory[2].StartTime = 0
    /\ mgr.stats.TotalUptime = 1

\* C35: totalSubscriptions is never reset: it changes only by one, in the
\* step that writes a request, so it counts the requests written over all
\* connections; when no write has failed it is, after each send phase,
\* the number of connections times types x instances.
SubscriptionCounted ==
    totalSubscriptions' # totalSubscriptions
        => /\ totalSubscriptions' = totalSubscriptions + 1
           /\ wire' = Append(wire, Last(wire'))

SubscriptionsOverEpochs ==
    (SendPhaseOver /\ sendFails = 0) =>
        totalSubscriptions
            = mgr.stats.TotalConnections * NonEmptyEntries * config.SubCount

C35_TotalNeverReset ==
    [][SubscriptionCounted]_vars /\ []SubscriptionsOverEpochs

\* "newHeads,logs" twice each, no failure: 8 after the second connection.
C35_Witness ==
    /\ config.Subscriptions = <<"newHeads", ",", "logs">>
    /\ config.SubCount = 2
    /\ pc = "listen" /\ sendFails = 0
    /\ mgr.stats.TotalConnections = 2
    /\ Len(wire) = 4 /\ totalSubscriptions = 8

\* C36: idToSubscription is never cleared and no id is ever tracked under
\* another type: an entry, once there, stays as it is in every later
\* connection, and the id i tracks the entry floor((i-1)/SubCount), counted
\* from 0, of the trimmed, non-empty entries of config.Subscriptions.
TrimmedTypes ==
    LET trimmed == [k \in 1..Len(subTypes) |-> TrimSpace(subTypes[k])]
        NonEmpty(e) == e # ""
    IN  SelectSeq(trimmed, NonEmpty)

TrackingKept ==
    \A i \in DOMAIN idToSubscription :
        /\ i \in DOMAIN idToSubscription'
        /\ idToSubscription'[i] = idToSubscription[i]

TrackingByPosition ==
    \A i \in DOMAIN idToSubscription :
        /\ 1 <= i /\ i <= Len(TrimmedTypes) * config.SubCount
        /\ idToSubscription[i]
             = TrimmedTypes[((i - 1) \div config.SubCount) + 1]

C36_TrackingStable == [][TrackingKept]_vars /\ []TrackingByPosition

\* " newHeads, ,logs<tab>" twice each: in the second connection the write of
\* one request failed, and its id is still tracked from the first.
C36_Witness ==
    /\ config.Subscriptions = <<" ", "newHeads", ",", " ", ",", "logs", "\t">>
    /\ config.SubCount = 2
    /\ pc = "listen" /\ iter.sendFailed
    /\ mgr.stats.TotalConnections = 2 /\ Len(wire) = 3
    /\ DOMAIN idToSubscription = 1..4
    /\ idToSubscription[2] = "newHeads" /\ idToSubscription[3] = "logs"

\* C37: an iteration of the connection loop calls IncrementReconnections at
\* most once, after its dial failed or after the read of the connection it
\* opened failed, and only after it counted its attempt: TotalReconnections
\* is at most ConnectionAttempts.  (It counts failures, and can be greater
\* than TotalConnections.)
ReconnectionStep ==
    mgr'.stats.TotalReconnections # mgr.stats.TotalReconnections
        => /\ mgr'.stats.TotalReconnections
                = mgr.stats.TotalReconnections + 1
           /\ pc \in {"dialFailed", "reconn"}
           /\ iter.attempt = 1 /\ iter.reconn = 0

ReconnectionsWithinAttempts ==
    /\ iter.reconn <= 1
    /\ mgr.stats.TotalReconnections <= mgr.stats.ConnectionAttempts

C37_ReconnectionsBounded ==
    [][ReconnectionStep]_vars /\ []ReconnectionsWithinAttempts

\* One connection, whose read failed, and then a dial that failed.
C37_Witness ==
    /\ mgr.stats.ConnectionAttempts = 2 /\ mgr.stats.TotalReconnections = 2
    /\ mgr.stats.TotalConnections = 1 /\ lastFail = "dial"

\* C38: the counts of messagesByType, "unknown" included, add up to at most
\* SubscriptionEvents.  The difference starts at 0 and grows, by one, exactly
\* in the HandleResponse of a notification whose params are not a map with a
\* subscription field: the sum equals SubscriptionEvents exactly when every
\* notification so far had the field.
RECURSIVE SumCounts(_, _)
SumCounts(f, keys) ==
    IF keys = {} THEN 0
    ELSE LET key == CHOOSE x \in keys : TRUE
         IN  f[key] + SumCounts(f, keys \ {key})

Uncounted(m) ==
    m.stats.SubscriptionEvents
        - SumCounts(m.messagesByType, DOMAIN m.messagesByType)

HasSubscriptionField(r) == r.Params.kind = "map" /\ r.Params.hasSub

UncountedStep ==
    IF /\ call'.op = "HandleResponse"
       /\ IsNotification(call'.response)
       /\ ~HasSubscriptionField(call'.response)
    THEN /\ Uncounted(mgr') = Uncounted(mgr) + 1
         /\ dSub = 1
         /\ mgr'.messagesByType = mgr.messagesByType
    ELSE Uncounted(mgr') = Uncounted(mgr)

C38_BucketsWithinEvents == [][UncountedStep]_vars /\ [](Uncounted(mgr) >= 0)

\* Two notifications, one with the subscription field and one without.
C38_Witness ==
    /\ call.op = "HandleResponse" /\ IsNotification(call.response)
    /\ ~HasSubscriptionField(call.response)
    /\ mgr.stats.SubscriptionEvents = 2 /\ Uncounted(mgr) = 1
    /\ Count(mgr, "newHeads") = 1

\* C39: when the read loop finds done closed, listenForMessages returns
\* without EndConnection and without IncrementReconnections: from then on
\* the history, LongestConnection, ShortestConnection and TotalReconnections
\* stay as they are, the connection stays without a record, and TotalUptime
\* changes only in PrintFinalStats, by the time since the connection began.
CancelledOpen ==
    lastFail = "cancel" => done /\ ConnectionOpen(mgr) /\ pc \in {"loop", "exited"}

AfterCancelStep ==
    lastFail' = "cancel" =>
        /\ mgr'.connectionHistory = mgr.connectionHistory
        /\ mgr'.stats.LongestConnection = mgr.stats.LongestConnection
        /\ mgr'.stats.ShortestConnection = mgr.stats.ShortestConnection
        /\ mgr'.stats.TotalReconnections = mgr.stats.TotalReconnections
        /\ mgr'.stats.TotalUptime # mgr.stats.TotalUptime
             => /\ mpc = "final" /\ mpc' = "exited"
                /\ mgr'.stats.TotalUptime
                     = mgr.stats.TotalUptime
                         + (now - mgr.stats.CurrentConnStart)

C39_CancelLeavesOpen == [][AfterCancelStep]_vars /\ []CancelledOpen

\* The second connection was open for a time unit when the run was stopped.
C39_Witness ==
    /\ lastFail = "cancel" /\ pc = "exited" /\ mpc = "exited"
    /\ mgr.stats.TotalConnections = 2 /\ Len(mgr.connectionHistory) = 1
    /\ mgr.connectionHistory[1].Duration = 0
    /\ mgr.stats.TotalUptime = 1 /\ mgr.stats.LongestConnection = 0

====
